---- MODULE Spec2Model ----
(***************************************************************************)
(* Model of the protocol translation layer of raycast2api                  *)
(* (service/utls.go, service/types.go, service/handlers.go).               *)
(*                                                                         *)
(* Byte strings that are scanned (the backend body, the streaming buffer,  *)
(* a line) are sequences of tokens: the separators "\n", "\r", " ", the    *)
(* prefix "data:", and whole payload texts.  Strings that are only         *)
(* concatenated and compared (fragments, roles, identifiers) are strings.  *)
(***************************************************************************)
EXTENDS Integers, Sequences, FiniteSets, TLC

VARIABLES
    pc,              \* position of the handler of the request
    body,            \* the backend response body, as the backend produces it
    upstream,        \* the part of body the streaming reader has not consumed
    buffer,          \* handleStreamingResponse: buffer
    out,             \* every write attempted on c.Writer, in order
    nextUuid,        \* number of uuid.New() calls made so far
    clientGone,      \* the client has disconnected: writes to c.Writer fail
    exit,            \* how the read loop of handleStreamingResponse ended
    response,        \* the document written by a non-streaming handler
    openaiMessages,  \* convertMessages: its argument
    raycastMessages, \* convertMessages: its result
    request,         \* the body of the client's request
    sent,            \* the requests sent to the backend, in order
    models,          \* what config.ModelCache.GetModels() returns
    upstreamStatus,  \* resp.StatusCode of the backend's answer, 0 before it
    parseFailures,   \* number of "Failed to parse SSE data" lines logged
    tasks            \* the handler calls of requests served at the same time

vars == <<pc, body, upstream, buffer, out, nextUuid, clientGone, exit,
          response, openaiMessages, raycastMessages, request, sent, models, upstreamStatus,
          parseFailures, tasks>>

-----------------------------------------------------------------------------
(* Tokens of a byte string *)

LF == "\n"
CR == "\r"
SP == " "
DATA == "data:"

\* Payload texts the backend may send after the "data:" prefix or as a whole body.
P_hello == "{\"text\":\"Hello\"}"
P_there == "{\"text\":\" there\",\"finish_reason\":\"stop\"}"
P_histop == "{\"text\":\"hi\",\"finish_reason\":\"stop\"}"
P_content == "{\"content\":\"hi\"}"
P_foo == "{\"foo\":\"bar\"}"
P_empty == "{}"
P_done == "[DONE]"
\* "text" is a number: the strict parse fails with a type error
P_numtext == "{\"text\":1,\"content\":\"hi\"}"
\* stands for {"text":"AAAA...A"} with a text of 70000 bytes
P_big == "{\"text\":\"A..(70000)..A\"}"
\* whole-body answers in other shapes
P_choices == "{\"choices\":[{\"message\":{\"content\":\"m\"}}]}"
P_delta == "{\"choices\":[{\"delta\":{\"content\":\"d\"}}],\"text\":\"t\"}"
P_completion == "{\"completion\":\"c\"}"
P_content_choices == "{\"content\":\"k\",\"choices\":[{\"message\":{\"content\":\"m\"}}]}"
P_message_delta ==
    "{\"choices\":[{\"message\":{\"content\":\"m\"},\"delta\":{\"content\":\"d\"}}],\"text\":\"t\"}"
P_emptymessage_delta ==
    "{\"choices\":[{\"message\":{\"content\":\"\"},\"delta\":{\"content\":\"d\"}}]}"
P_text_completion == "{\"text\":\"t\",\"completion\":\"c\"}"
P_emptycontent_completion == "{\"content\":\"\",\"completion\":\"c\"}"
P_numcontent_text == "{\"content\":1,\"text\":\"t\"}"
P_nochoices_completion == "{\"choices\":[],\"completion\":\"c\"}"
\* payloads the strict parse rejects
P_numfinish_text_content == "{\"finish_reason\":1,\"text\":\"t\",\"content\":\"c\"}"
P_numtext_message == "{\"text\":1,\"message\":{\"content\":\"m\"}}"
P_numtext_emptycontent_message ==
    "{\"text\":1,\"content\":\"\",\"message\":{\"content\":\"m\"}}"
P_numtext_only == "{\"text\":1}"
P_garbage == "oops"
\* a line that is neither blank nor data-prefixed
P_event == "event: message"

IsSpace(tok) == tok \in {SP, LF, CR}

\* len() of the bytes a token sequence stands for
RECURSIVE ByteLen(_)
ByteLen(s) ==
    IF s = <<>> THEN 0
    ELSE (IF Head(s) = P_big THEN 70000 ELSE Len(Head(s))) + ByteLen(Tail(s))

-----------------------------------------------------------------------------
(* encoding/json, on the payload texts above *)

JStr(s) == [t |-> "string", s |-> s]
JNum == [t |-> "number"]
JNull == [t |-> "null"]
JObj(f) == [t |-> "object", f |-> f]
JArr(a) == [t |-> "array", a |-> a]
JInvalid == [t |-> "invalid"]

\* The JSON value a payload text denotes; JInvalid for a text that is not JSON.
Decode(tok) ==
    CASE tok = P_hello -> JObj([text |-> JStr("Hello")])
      [] tok = P_there -> JObj([text |-> JStr(" there"), finish_reason |-> JStr("stop")])
      [] tok = P_histop -> JObj([text |-> JStr("hi"), finish_reason |-> JStr("stop")])
      [] tok = P_content -> JObj([content |-> JStr("hi")])
      [] tok = P_foo -> JObj([foo |-> JStr("bar")])
      [] tok = P_empty -> JObj(<<>>)
      [] tok = P_numtext -> JObj([text |-> JNum, content |-> JStr("hi")])
      [] tok = P_big -> JObj([text |-> JStr("A..(70000)..A")])
      [] tok = P_choices ->
           JObj([choices |-> JArr(<<JObj([message |-> JObj([content |-> JStr("m")])])>>)])
      [] tok = P_delta ->
           JObj([choices |-> JArr(<<JObj([delta |-> JObj([content |-> JStr("d")])])>>),
                 text |-> JStr("t")])
      [] tok = P_completion -> JObj([completion |-> JStr("c")])
      [] tok = P_content_choices ->
           JObj([content |-> JStr("k"),
                 choices |-> JArr(<<JObj([message |-> JObj([content |-> JStr("m")])])>>)])
      [] tok = P_message_delta ->
           JObj([choices |-> JArr(<<JObj([message |-> JObj([content |-> JStr("m")]),
                                          delta |-> JObj([content |-> JStr("d")])])>>),
                 text |-> JStr("t")])
      [] tok = P_emptymessage_delta ->
           JObj([choices |-> JArr(<<JObj([message |-> JObj([content |-> JStr("")]),
                                          delta |-> JObj([content |-> JStr("d")])])>>)])
      [] tok = P_text_completion -> JObj([text |-> JStr("t"), completion |-> JStr("c")])
      [] tok = P_emptycontent_completion ->
           JObj([content |-> JStr(""), completion |-> JStr("c")])
      [] tok = P_numcontent_text -> JObj([content |-> JNum, text |-> JStr("t")])
      [] tok = P_nochoices_completion ->
           JObj([choices |-> JArr(<<>>), completion |-> JStr("c")])
      [] tok = P_numfinish_text_content ->
           JObj([finish_reason |-> JNum, text |-> JStr("t"), content |-> JStr("c")])
      [] tok = P_numtext_message ->
           JObj([text |-> JNum, message |-> JObj([content |-> JStr("m")])])
      [] tok = P_numtext_emptycontent_message ->
           JObj([text |-> JNum, content |-> JStr(""),
                 message |-> JObj([content |-> JStr("m")])])
      [] tok = P_numtext_only -> JObj([text |-> JNum])
      [] OTHER -> JInvalid

RECURSIVE TrimLeft(_)
TrimLeft(s) == IF s # <<>> /\ IsSpace(Head(s)) THEN TrimLeft(Tail(s)) ELSE s

RECURSIVE TrimRight(_)
TrimRight(s) ==
    IF s # <<>> /\ IsSpace(s[Len(s)]) THEN TrimRight(SubSeq(s, 1, Len(s) - 1)) ELSE s

\* strings.TrimSpace
TrimSpace(s) == TrimRight(TrimLeft(s))

\* The value json.Unmarshal scans in data: one JSON text, white space around it
\* allowed; anything else is a syntax error.
JSONValue(data) ==
    LET s == TrimSpace(data)
    IN  IF Len(s) = 1 THEN Decode(s[1]) ELSE JInvalid

\* v.(string): the string held by a member of a decoded map, ok = FALSE when the
\* key is absent or holds another type.
StringMember(f, key) ==
    IF key \in DOMAIN f /\ f[key].t = "string"
    THEN [ok |-> TRUE, s |-> f[key].s]
    ELSE [ok |-> FALSE, s |-> ""]

\* v.(map[string]interface{})
ObjectMember(f, key) ==
    IF key \in DOMAIN f /\ f[key].t = "object"
    THEN [ok |-> TRUE, f |-> f[key].f]
    ELSE [ok |-> FALSE, f |-> <<>>]

\* v.([]interface{})
ArrayMember(f, key) ==
    IF key \in DOMAIN f /\ f[key].t = "array"
    THEN [ok |-> TRUE, a |-> f[key].a]
    ELSE [ok |-> FALSE, a |-> <<>>]

\* json.Unmarshal(data, &genericData) with genericData map[string]interface{}:
\* an object fills the map, null leaves it nil, anything else is an error.
UnmarshalMap(data) ==
    LET v == JSONValue(data)
    IN  CASE v.t = "object" -> [err |-> FALSE, f |-> v.f]
          [] v.t = "null" -> [err |-> FALSE, f |-> <<>>]
          [] OTHER -> [err |-> TRUE, f |-> <<>>]

\* One string field of a struct: a string is stored, null and an absent key leave
\* the zero value, any other JSON type is an UnmarshalTypeError.
StructField(f, key) ==
    CASE key \notin DOMAIN f -> [err |-> FALSE, s |-> ""]
      [] f[key].t = "string" -> [err |-> FALSE, s |-> f[key].s]
      [] f[key].t = "null" -> [err |-> FALSE, s |-> ""]
      [] OTHER -> [err |-> TRUE, s |-> ""]

\* json.Unmarshal(data, &jsonData) with jsonData RaycastSSEData
RaycastSSEData(data) ==
    LET v == JSONValue(data)
    IN  CASE v.t = "object" ->
               LET text == StructField(v.f, "text")
                   fr == StructField(v.f, "finish_reason")
               IN  [err |-> text.err \/ fr.err, Text |-> text.s, FinishReason |-> fr.s]
          [] v.t = "null" -> [err |-> FALSE, Text |-> "", FinishReason |-> ""]
          [] OTHER -> [err |-> TRUE, Text |-> "", FinishReason |-> ""]

-----------------------------------------------------------------------------
(* strings and bufio *)

\* strings.HasPrefix(s, "data:")
HasDataPrefix(s) == s # <<>> /\ Head(s) = DATA

\* strings.HasSuffix(s, "\n\n")
HasSuffixLFLF(s) == Len(s) >= 2 /\ s[Len(s) - 1] = LF /\ s[Len(s)] = LF

\* strings.Split(s, "\n"): the pieces between the "\n", one more than the "\n"
RECURSIVE Split(_)
Split(s) ==
    IF \A i \in 1..Len(s) : s[i] # LF THEN <<s>>
    ELSE LET i == CHOOSE k \in 1..Len(s) : s[k] = LF /\ \A j \in 1..(k - 1) : s[j] # LF
         IN  <<SubSeq(s, 1, i - 1)>> \o Split(SubSeq(s, i + 1, Len(s)))

\* bufio.MaxScanTokenSize: the buffer limit of a bufio.Scanner made by NewScanner
MaxScanTokenSize == 65536

\* bufio's dropCR: one trailing "\r" removed
DropCR(s) == IF s # <<>> /\ s[Len(s)] = CR THEN SubSeq(s, 1, Len(s) - 1) ELSE s

\* The raw lines up to, not including, the first one that does not fit the
\* scanner's buffer: Scan() returns false there (ErrTooLong) and the loop ends.
RECURSIVE UntilTooLong(_)
UntilTooLong(ls) ==
    IF ls = <<>> \/ ByteLen(Head(ls)) >= MaxScanTokenSize THEN <<>>
    ELSE <<Head(ls)>> \o UntilTooLong(Tail(ls))

\* The successive scanner.Text() of bufio.NewScanner(strings.NewReader(text)) with
\* the default split function ScanLines: lines end at "\n", a final line without
\* "\n" counts when it is not empty, and one trailing "\r" is dropped.
ScanLines(text) ==
    LET pieces == Split(text)
        raw == IF pieces[Len(pieces)] = <<>>
               THEN SubSeq(pieces, 1, Len(pieces) - 1) ELSE pieces
        fit == UntilTooLong(raw)
    IN  [i \in 1..Len(fit) |-> DropCR(fit[i])]

-----------------------------------------------------------------------------
(* parseSSEResponse *)

\* Mutant of sseDataText: the fallback looks at "content" before "text"
sseDataText_ContentFirst(data) ==
    IF data = <<P_done>> THEN ""
    ELSE LET jsonData == RaycastSSEData(data)
             genericData == UnmarshalMap(data)
             text == StringMember(genericData.f, "text")
             content == StringMember(genericData.f, "content")
             message == ObjectMember(genericData.f, "message")
             nested == StringMember(message.f, "content")
         IN  IF jsonData.err
             THEN CASE genericData.err -> ""
                    [] content.ok /\ content.s # "" -> content.s
                    [] text.ok /\ text.s # "" -> text.s
                    [] message.ok /\ nested.ok /\ nested.s # "" -> nested.s
                    [] OTHER -> ""
             ELSE jsonData.Text

\* The text one "data:" payload adds to fullText (utls.go 94-145); "" when the
\* payload is skipped.
sseDataText(data) ==
    IF data = <<P_done>> THEN ""
    ELSE LET jsonData == RaycastSSEData(data)
             genericData == UnmarshalMap(data)
             text == StringMember(genericData.f, "text")
             content == StringMember(genericData.f, "content")
             message == ObjectMember(genericData.f, "message")
             nested == StringMember(message.f, "content")
         IN  IF jsonData.err
             THEN CASE genericData.err -> ""
                    [] text.ok /\ text.s # "" -> text.s
                    [] content.ok /\ content.s # "" -> content.s
                    [] message.ok /\ nested.ok /\ nested.s # "" -> nested.s
                    [] OTHER -> ""
             ELSE jsonData.Text

\* The text one scanned line adds to fullText (utls.go 83-149)
sseLineText(line) ==
    IF line # <<>> /\ HasDataPrefix(line)
    THEN sseDataText(TrimSpace(Tail(line)))
    ELSE ""

RECURSIVE ConcatLineTexts(_)
ConcatLineTexts(lines) ==
    IF lines = <<>> THEN ""
    ELSE sseLineText(Head(lines)) \o ConcatLineTexts(Tail(lines))

\* Whether parseSSEResponse logs "Failed to parse SSE data as RaycastSSEData"
\* for a scanned line (line 103): 1 when it does, 0 otherwise
sseLineFailures(line) ==
    IF line # <<>> /\ HasDataPrefix(line) /\ TrimSpace(Tail(line)) # <<P_done>>
       /\ RaycastSSEData(TrimSpace(Tail(line))).err
    THEN 1 ELSE 0

RECURSIVE SumLineFailures(_)
SumLineFailures(lines) ==
    IF lines = <<>> THEN 0
    ELSE sseLineFailures(Head(lines)) + SumLineFailures(Tail(lines))

\* The number of those log lines one call of parseSSEResponse writes
parseSSEFailures(responseText) ==
    IF TrimSpace(responseText) = <<>> THEN 0
    ELSE SumLineFailures(ScanLines(responseText))

\* parseSSEResponse(responseText).  The whole-response pass of lines 154-179
\* only logs and does not change the result.
parseSSEResponse(responseText) ==
    IF TrimSpace(responseText) = <<>> THEN ""
    ELSE ConcatLineTexts(ScanLines(responseText))

-----------------------------------------------------------------------------
(* OpenAIChatRequest and its UnmarshalJSON *)

\* A JSON boolean, and a JSON number with its value.  Numbers are held in tenths
\* (5 is 0.5, 1000 is 100), which is exact for every number used here.
JBool(b) == [t |-> "bool", b |-> b]
JNumber(tenths) == [t |-> "number", n |-> tenths]

\* No client request, and no answer of the model cache, in the handlers that use
\* neither
NoRequest == [t |-> "none"]

NoModels == [err |-> FALSE, list |-> <<>>]

\* An OpenAIMessage: Content is the decoded JSON value (interface{})
OpenAIMessage(role, content) == [Role |-> role, Content |-> content]

\* json.Unmarshal of one array element into an OpenAIMessage: an object fills
\* the fields it names, null leaves the zero message, anything else is an error.
UnmarshalMessage(v) ==
    CASE v.t = "object" ->
           LET role == StructField(v.f, "role")
           IN  [err |-> role.err,
                m |-> OpenAIMessage(role.s, IF "content" \in DOMAIN v.f
                                            THEN v.f["content"] ELSE JNull)]
      [] v.t = "null" -> [err |-> FALSE, m |-> OpenAIMessage("", JNull)]
      [] OTHER -> [err |-> TRUE, m |-> OpenAIMessage("", JNull)]

\* Mutant of UnmarshalMessages: an element that cannot be decoded is skipped over
UnmarshalMessages_Lenient(v) ==
    CASE v.t = "array" ->
           [err |-> FALSE, m |-> [i \in 1..Len(v.a) |-> UnmarshalMessage(v.a[i]).m]]
      [] OTHER -> [err |-> FALSE, m |-> <<>>]

\* json.Unmarshal(messages, &m) with m []OpenAIMessage (lines 78-85): null leaves
\* m nil, an array is decoded element by element, anything else is an error.
UnmarshalMessages(v) ==
    CASE v.t = "null" -> [err |-> FALSE, m |-> <<>>]
      [] v.t = "array" ->
           [err |-> \E i \in 1..Len(v.a) : UnmarshalMessage(v.a[i]).err,
            m |-> [i \in 1..Len(v.a) |-> UnmarshalMessage(v.a[i]).m]]
      [] OTHER -> [err |-> TRUE, m |-> <<>>]

\* rawMap[key].(string), .(float64), .(bool): whether the key holds that type
HoldsType(f, key, type) == key \in DOMAIN f /\ f[key].t = type

\* The OpenAIChatRequest before UnmarshalJSON has run
ZeroRequest ==
    [err |-> FALSE, Messages |-> <<>>, Model |-> "", Temperature |-> 0,
     Stream |-> FALSE, System |-> "", MaxTokens |-> 0, Extra |-> <<>>]

\* (r *OpenAIChatRequest) UnmarshalJSON(data), on the value data denotes.
\* Temperature is in tenths; MaxTokens is int(v).
UnmarshalJSON(v) ==
    IF v.t \notin {"object", "null"} THEN [ZeroRequest EXCEPT !.err = TRUE]
    ELSE LET rawMap == IF v.t = "object" THEN v.f ELSE <<>>
             messages == IF "messages" \in DOMAIN rawMap
                         THEN UnmarshalMessages(rawMap["messages"])
                         ELSE [err |-> FALSE, m |-> <<>>]
             typed == [model |-> "string", temperature |-> "number", stream |-> "bool",
                       system |-> "string", max_tokens |-> "number", top_p |-> "number",
                       frequency_penalty |-> "number", presence_penalty |-> "number"]
             deleted == {"messages"}
                        \cup {k \in DOMAIN typed : HoldsType(rawMap, k, typed[k])}
             kept == (DOMAIN rawMap \ deleted)
                     \cup (IF HoldsType(rawMap, "system", "string") THEN {"system"} ELSE {})
         IN  IF messages.err THEN [ZeroRequest EXCEPT !.err = TRUE]
             ELSE [err |-> FALSE,
                   Messages |-> messages.m,
                   Model |-> IF HoldsType(rawMap, "model", "string")
                             THEN rawMap["model"].s ELSE "",
                   Temperature |-> IF HoldsType(rawMap, "temperature", "number")
                                   THEN rawMap["temperature"].n ELSE 0,
                   Stream |-> IF HoldsType(rawMap, "stream", "bool")
                              THEN rawMap["stream"].b ELSE FALSE,
                   System |-> IF HoldsType(rawMap, "system", "string")
                              THEN rawMap["system"].s ELSE "",
                   MaxTokens |-> IF HoldsType(rawMap, "max_tokens", "number")
                                 THEN rawMap["max_tokens"].n \div 10 ELSE 0,
                   Extra |-> [k \in kept |-> rawMap[k]]]

\* c.ShouldBindJSON(&body): the request body is decoded as JSON and handed to
\* UnmarshalJSON; a body that is not JSON is an error.
ShouldBindJSON(req) ==
    IF req.t = "invalid" THEN [ZeroRequest EXCEPT !.err = TRUE] ELSE UnmarshalJSON(req)

\* The configured default model name
DefaultModel == "d"

-----------------------------------------------------------------------------
(* handleNonStreamingResponse *)

\* Mutant of extractTextFromJSON: "text" is looked at before "choices"
extractTextFromJSON_TextFirst(jsonData) ==
    LET content == StringMember(jsonData, "content")
        choices == ArrayMember(jsonData, "choices")
        first == IF choices.ok /\ Len(choices.a) > 0 /\ choices.a[1].t = "object"
                 THEN [ok |-> TRUE, f |-> choices.a[1].f]
                 ELSE [ok |-> FALSE, f |-> <<>>]
        message == ObjectMember(first.f, "message")
        msgContent == StringMember(message.f, "content")
        delta == ObjectMember(first.f, "delta")
        deltaContent == StringMember(delta.f, "content")
        text == StringMember(jsonData, "text")
        completion == StringMember(jsonData, "completion")
    IN  CASE content.ok /\ content.s # "" -> content.s
          [] text.ok /\ text.s # "" -> text.s
          [] first.ok /\ message.ok /\ msgContent.ok /\ msgContent.s # "" -> msgContent.s
          [] first.ok /\ delta.ok /\ deltaContent.ok /\ deltaContent.s # "" -> deltaContent.s
          [] completion.ok /\ completion.s # "" -> completion.s
          [] OTHER -> ""

\* extractTextFromJSON(jsonData)
extractTextFromJSON(jsonData) ==
    LET content == StringMember(jsonData, "content")
        choices == ArrayMember(jsonData, "choices")
        first == IF choices.ok /\ Len(choices.a) > 0 /\ choices.a[1].t = "object"
                 THEN [ok |-> TRUE, f |-> choices.a[1].f]
                 ELSE [ok |-> FALSE, f |-> <<>>]
        message == ObjectMember(first.f, "message")
        msgContent == StringMember(message.f, "content")
        delta == ObjectMember(first.f, "delta")
        deltaContent == StringMember(delta.f, "content")
        text == StringMember(jsonData, "text")
        completion == StringMember(jsonData, "completion")
    IN  CASE content.ok /\ content.s # "" -> content.s
          [] first.ok /\ message.ok /\ msgContent.ok /\ msgContent.s # "" -> msgContent.s
          [] first.ok /\ delta.ok /\ deltaContent.ok /\ deltaContent.s # "" -> deltaContent.s
          [] text.ok /\ text.s # "" -> text.s
          [] completion.ok /\ completion.s # "" -> completion.s
          [] OTHER -> ""

\* The fixed notice of line 332 (a Chinese sentence: "Sorry, the response content
\* could not be extracted. ...")
Placeholder == "<notice: the response content could not be extracted>"

\* The modelId handed to the response handlers: the model name of the request
\* after the default (part_000 253-256, 412, 414); "x" for a handler run on its
\* own.
modelId ==
    IF request = NoRequest THEN "x"
    ELSE LET r == ShouldBindJSON(request)
         IN  IF r.Model = "" THEN DefaultModel ELSE r.Model

\* fullText after the direct JSON fallback of lines 313-327
directJSONText(bodyBytes, fullText) ==
    LET directJsonResponse == UnmarshalMap(bodyBytes)
        extractedText == extractTextFromJSON(directJsonResponse.f)
    IN  IF ~directJsonResponse.err /\ extractedText # "" THEN extractedText ELSE fullText

\* Mutant of orPlaceholder: the empty text is kept
orPlaceholder_Keep(fullText) == fullText

\* fullText after the default message of lines 329-333
orPlaceholder(fullText) == IF fullText = "" THEN Placeholder ELSE fullText

\* fullText as handleNonStreamingResponse resolves it (lines 307-334)
resolveFullText(bodyBytes) ==
    LET fullText == parseSSEResponse(bodyBytes)
    IN  IF fullText = "" THEN orPlaceholder(directJSONText(bodyBytes, fullText))
        ELSE fullText

NoResponse == [status |-> 0, object |-> "", type |-> "", id |-> 0, model |-> "",
               role |-> "", content |-> "", finish_reason |-> "",
               usage |-> <<>>, data |-> <<>>]

\* c.JSON(status, ErrorResponse{...})
ErrorResponse(status, type) ==
    [NoResponse EXCEPT !.status = status, !.object = "error", !.type = type]

\* The Usage member of lines 370-406
Usage ==
    [prompt_tokens |-> 10, completion_tokens |-> 10, total_tokens |-> 20,
     prompt_tokens_details |-> [cached_tokens |-> 0, audio_tokens |-> 0],
     completion_tokens_details |->
         [reasoning_tokens |-> 0, audio_tokens |-> 0,
          accepted_prediction_tokens |-> 0, rejected_prediction_tokens |-> 0]]

\* Mutant of OpenAIChatResponse: the finish reason is "stop"
OpenAIChatResponse_Stop(id, fullText) ==
    [status |-> 200, object |-> "chat.completion", type |-> "", id |-> id,
     model |-> modelId, role |-> "assistant", content |-> fullText,
     finish_reason |-> "stop",
     usage |-> Usage, data |-> <<>>]

\* The OpenAIChatResponse of lines 337-409, written with the default status 200
OpenAIChatResponse(id, fullText) ==
    [status |-> 200, object |-> "chat.completion", type |-> "", id |-> id,
     model |-> modelId, role |-> "assistant", content |-> fullText,
     finish_reason |-> "length",
     usage |-> Usage, data |-> <<>>]

-----------------------------------------------------------------------------
(* Backend bodies *)

\* Lines of a body given to the non-streaming handler: at most this many
MaxLines == 4

RECURSIVE JoinLines(_)
JoinLines(ls) == IF ls = <<>> THEN <<>> ELSE Head(ls) \o <<LF>> \o JoinLines(Tail(ls))

\* Every sequence of at most max lines of the set, each ended by "\n", and the
\* same without the final "\n" (a body cut off inside its last line).
BodiesOf(lineSet, max) ==
    LET seqs == UNION {[1..n -> lineSet] : n \in 0..max}
        full == {JoinLines(ls) : ls \in seqs}
    IN  full \cup {SubSeq(b, 1, Len(b) - 1) : b \in full \ {<<>>}}

DataLine(p) == <<DATA, SP, p>>

\* The lines of the bodies given to the non-streaming handler
AggregateLines ==
    {<<>>, <<P_event>>}
    \cup {DataLine(p) : p \in {P_hello, P_there, P_content, P_done, P_numtext, P_big}}

\* Bodies of one event, with "\n" and with "\r\n" line ends
SingleEventBodies ==
    LET payloads == {P_hello, P_there, P_histop, P_content, P_foo, P_empty, P_done,
                     P_numtext, P_big}
    IN  {DataLine(p) \o <<LF, LF>> : p \in payloads}
        \cup {<<DATA, p, LF, LF>> : p \in payloads}
        \cup {DataLine(p) \o <<CR, LF, CR, LF>> : p \in payloads}

\* The body of two events, each closed by a blank line
TwoEventBody(p, q) == DataLine(p) \o <<LF, LF>> \o DataLine(q) \o <<LF, LF>>

\* Bodies of two events, each closed by a blank line
EventPairBodies ==
    LET payloads == {P_hello, P_there, P_content, P_foo, P_done, P_numtext,
                     P_numfinish_text_content, P_numtext_message,
                     P_numtext_emptycontent_message, P_numtext_only, P_garbage}
    IN  {DataLine(p) \o <<LF, LF>> \o DataLine(q) \o <<LF, LF>> :
            p \in payloads, q \in payloads}

\* Bodies that are one JSON document instead of an event stream
DocumentBodies ==
    LET docs == {P_content, P_choices, P_delta, P_completion, P_hello, P_foo, P_empty,
                 P_content_choices, P_message_delta, P_emptymessage_delta,
                 P_text_completion, P_emptycontent_completion, P_numcontent_text,
                 P_nochoices_completion, P_numtext_message, P_garbage}
    IN  {<<p>> : p \in docs} \cup {<<p, LF>> : p \in docs}

AggregateBodies(max) ==
    BodiesOf(AggregateLines, max) \cup SingleEventBodies \cup EventPairBodies
    \cup DocumentBodies

-----------------------------------------------------------------------------
(* The non-streaming handler as a state machine *)

InitAggregate ==
    /\ pc = "nonstreaming"
    /\ body \in AggregateBodies(MaxLines)
    /\ upstream = body
    /\ buffer = <<>>
    /\ out = <<>>
    /\ nextUuid = 0
    /\ clientGone = FALSE
    /\ exit = "none"
    /\ response = NoResponse
    /\ openaiMessages = <<>>
    /\ raycastMessages = <<>>
    /\ request = NoRequest
    /\ sent = <<>>
    /\ models = NoModels
    /\ upstreamStatus = 200
    /\ parseFailures = 0
    /\ tasks = <<>>

\* handleNonStreamingResponse when io.ReadAll fails (lines 291-305)
NonStreamingReadError ==
    /\ pc = "nonstreaming"
    /\ pc' = "done"
    /\ exit' = "error"
    /\ response' = ErrorResponse(500, "server_error")
    /\ UNCHANGED <<body, upstream, buffer, out, nextUuid, clientGone,
                   openaiMessages, raycastMessages,
                   request, sent, models, upstreamStatus, parseFailures, tasks>>

\* handleNonStreamingResponse when the body is read (lines 291, 307-432).
\* json.MarshalIndent of a struct of strings, integers and nil pointers does not
\* fail, so the error answer of lines 412-425 is never produced.
NonStreamingRespond ==
    /\ pc = "nonstreaming"
    /\ pc' = "done"
    /\ exit' = "eof"
    /\ upstream' = <<>>
    /\ nextUuid' = nextUuid + 1
    /\ response' = OpenAIChatResponse(nextUuid + 1, resolveFullText(body))
    /\ parseFailures' = parseFailures + parseSSEFailures(body)
    /\ UNCHANGED <<body, buffer, out, clientGone, openaiMessages, raycastMessages,
                   request, sent, models, upstreamStatus, tasks>>

NextAggregate == NonStreamingReadError \/ NonStreamingRespond

SpecAggregate == InitAggregate /\ [][NextAggregate]_vars

-----------------------------------------------------------------------------
(* handleStreamingResponse *)

\* c.Writer.(http.Flusher) of line 192.  c.Writer is a gin.ResponseWriter, an
\* interface that embeds http.Flusher, so the assertion holds for every writer
\* gin hands to a handler and the branch of lines 193-197 is not taken.
FlusherSupported == TRUE

\* One write on c.Writer followed by flusher.Flush(); ok is whether it reached
\* the client.  The code ignores the result of Fprintf.
ChunkWrite(uuid, jsonData, ok) ==
    [kind |-> "chunk", id |-> uuid, object |-> "chat.completion.chunk",
     model |-> modelId, index |-> 0, content |-> jsonData.Text,
     finish_reason |-> jsonData.FinishReason, ok |-> ok]

\* fmt.Fprintf(c.Writer, "data: [DONE]\n\n") and the flush after it
DoneWrite(ok) ==
    [kind |-> "done", id |-> 0, object |-> "", model |-> "", index |-> 0,
     content |-> "", finish_reason |-> "", ok |-> ok]

\* Mutant of lineChunk: the parse error is not checked (no continue)
lineChunk_NoErrorCheck(l, uuid, ok) ==
    IF TrimSpace(l) = <<>> THEN <<>>
    ELSE IF HasDataPrefix(l)
         THEN <<ChunkWrite(uuid, RaycastSSEData(TrimSpace(Tail(l))), ok)>>
         ELSE <<>>

\* The chunk written for one line l of a dispatched buffer (lines 220-277):
\* <<>> when the line is skipped.  uuid is the value uuid.New() returns.
lineChunk(l, uuid, ok) ==
    IF TrimSpace(l) = <<>> THEN <<>>
    ELSE IF HasDataPrefix(l)
         THEN LET jsonData == RaycastSSEData(TrimSpace(Tail(l)))
              IN  IF jsonData.err THEN <<>> ELSE <<ChunkWrite(uuid, jsonData, ok)>>
         ELSE <<>>

\* The writes of the loop over lines (lines 219-279); n is the number of
\* uuid.New() calls made before the loop.
RECURSIVE dispatchLines(_, _, _)
dispatchLines(lines, n, ok) ==
    IF lines = <<>> THEN <<>>
    ELSE LET w == lineChunk(Head(lines), n + 1, ok)
         IN  w \o dispatchLines(Tail(lines), n + Len(w), ok)

\* Whether the loop logs "Failed to parse SSE data" for the line l of a dispatched
\* buffer (lines 224-230): 1 when it does, 0 otherwise
lineFailure(l) ==
    IF TrimSpace(l) # <<>> /\ HasDataPrefix(l) /\ RaycastSSEData(TrimSpace(Tail(l))).err
    THEN 1 ELSE 0

RECURSIVE dispatchFailures(_)
dispatchFailures(lines) ==
    IF lines = <<>> THEN 0
    ELSE lineFailure(Head(lines)) + dispatchFailures(Tail(lines))

\* reader.ReadString('\n') when the unread input holds a "\n"
FirstLine(s) ==
    LET i == CHOOSE k \in 1..Len(s) : s[k] = LF /\ \A j \in 1..(k - 1) : s[j] # LF
    IN  SubSeq(s, 1, i)

HasLF(s) == \E i \in 1..Len(s) : s[i] = LF

\* Lines 186-199: headers, status 200, the flusher, the reader
StreamBegin ==
    /\ pc = "start"
    /\ IF FlusherSupported
       THEN /\ pc' = "reading"
            /\ response' = [NoResponse EXCEPT !.status = 200, !.object = "text/event-stream"]
            /\ exit' = exit
       ELSE /\ pc' = "closed"
            /\ response' = [NoResponse EXCEPT !.status = 500]
            /\ exit' = "unsupported"
    /\ UNCHANGED <<body, upstream, buffer, out, nextUuid, clientGone,
                   openaiMessages, raycastMessages,
                   request, sent, models, upstreamStatus, parseFailures, tasks>>

\* One iteration of the loop whose ReadString returns a line (lines 203-280)
ReadLine ==
    /\ pc = "reading"
    /\ HasLF(upstream)
    /\ LET line == FirstLine(upstream)
           buf == buffer \o line
           writes == dispatchLines(Split(buf), nextUuid, ~clientGone)
       IN  /\ upstream' = SubSeq(upstream, Len(line) + 1, Len(upstream))
           /\ IF HasSuffixLFLF(buf)
              THEN /\ buffer' = <<>>
                   /\ out' = out \o writes
                   /\ nextUuid' = nextUuid + Len(writes)
                   /\ parseFailures' = parseFailures + dispatchFailures(Split(buf))
              ELSE /\ buffer' = buf
                   /\ UNCHANGED <<out, nextUuid, parseFailures>>
    /\ UNCHANGED <<pc, body, clientGone, exit, response, openaiMessages, raycastMessages,
                   request, sent, models, upstreamStatus, tasks>>

\* Mutant of ReadEOF: the handler returns at end of stream without the marker
ReadEOF_NoMarker ==
    /\ pc = "reading"
    /\ ~HasLF(upstream)
    /\ upstream' = <<>>
    /\ exit' = "eof"
    /\ pc' = "closed"
    /\ UNCHANGED <<body, buffer, out, nextUuid, clientGone, response,
                   openaiMessages, raycastMessages,
                   request, sent, models, upstreamStatus, parseFailures, tasks>>

\* The iteration whose ReadString meets the end of the body: it returns what was
\* left together with io.EOF, the loop breaks and the marker is sent (lines
\* 203-207, 283-285).
ReadEOF ==
    /\ pc = "reading"
    /\ ~HasLF(upstream)
    /\ upstream' = <<>>
    /\ out' = Append(out, DoneWrite(~clientGone))
    /\ exit' = "eof"
    /\ pc' = "closed"
    /\ UNCHANGED <<body, buffer, nextUuid, clientGone, response,
                   openaiMessages, raycastMessages,
                   request, sent, models, upstreamStatus, parseFailures, tasks>>

\* Mutant of ReadError: the handler returns on the error without the marker
ReadError_Return ==
    /\ pc = "reading"
    /\ exit' = "error"
    /\ pc' = "closed"
    /\ UNCHANGED <<body, upstream, buffer, out, nextUuid, clientGone, response,
                   openaiMessages, raycastMessages,
                   request, sent, models, upstreamStatus, parseFailures, tasks>>

\* The iteration whose ReadString fails with another error: the loop breaks and
\* the marker is sent (lines 203-210, 283-285).
ReadError ==
    /\ pc = "reading"
    /\ out' = Append(out, DoneWrite(~clientGone))
    /\ exit' = "error"
    /\ pc' = "closed"
    /\ UNCHANGED <<body, upstream, buffer, nextUuid, clientGone, response,
                   openaiMessages, raycastMessages,
                   request, sent, models, upstreamStatus, parseFailures, tasks>>

\* The client closes its connection while the response is streamed
ClientDisconnect ==
    /\ pc \in {"start", "reading"}
    /\ ~clientGone
    /\ clientGone' = TRUE
    /\ UNCHANGED <<pc, body, upstream, buffer, out, nextUuid, exit, response,
                   openaiMessages, raycastMessages,
                   request, sent, models, upstreamStatus, parseFailures, tasks>>

\* Lines of an upstream body: at most this many
MaxStreamLines == 4

StreamLines ==
    {<<>>, <<P_event>>}
    \cup {DataLine(p) : p \in {P_hello, P_there, P_foo, P_done}}

StreamBodies(max) ==
    BodiesOf(StreamLines, max) \cup SingleEventBodies \cup EventPairBodies

Init ==
    /\ pc = "start"
    /\ body \in StreamBodies(MaxStreamLines)
    /\ upstream = body
    /\ buffer = <<>>
    /\ out = <<>>
    /\ nextUuid = 0
    /\ clientGone = FALSE
    /\ exit = "none"
    /\ response = NoResponse
    /\ openaiMessages = <<>>
    /\ raycastMessages = <<>>
    /\ request = NoRequest
    /\ sent = <<>>
    /\ models = NoModels
    /\ upstreamStatus = 200
    /\ parseFailures = 0
    /\ tasks = <<>>

Next == StreamBegin \/ ReadLine \/ ReadEOF \/ ReadError \/ ClientDisconnect

Spec == Init /\ [][Next]_vars

-----------------------------------------------------------------------------
(* convertMessages *)

RaycastMessage(author, text) == [Author |-> author, Content |-> [Text |-> text]]

\* Mutant of authorOf: only "user" maps to "user"
authorOf_OnlyUser(msg) == IF msg.Role = "user" THEN "user" ELSE "assistant"

\* Lines 34-37
authorOf(msg) == IF msg.Role = "assistant" THEN "assistant" ELSE "user"

\* Mutant of partText: the type of the part is not looked at
partText_AnyType(part) ==
    IF part.t = "object"
    THEN LET textValue == StringMember(part.f, "text")
         IN  IF textValue.ok THEN textValue.s ELSE ""
    ELSE ""

\* What one part of an array content adds to contentText (lines 46-52)
partText(part) ==
    IF part.t = "object"
    THEN LET type == StringMember(part.f, "type")
             textValue == StringMember(part.f, "text")
         IN  IF type.ok /\ type.s = "text" /\ textValue.ok THEN textValue.s ELSE ""
    ELSE ""

\* The loop of lines 45-53
RECURSIVE partsText(_)
partsText(parts) ==
    IF parts = <<>> THEN "" ELSE partText(Head(parts)) \o partsText(Tail(parts))

\* The type switch of lines 39-54
contentTextOf(content) ==
    CASE content.t = "string" -> content.s
      [] content.t = "array" -> partsText(content.a)
      [] OTHER -> ""

\* convertMessages(openaiMessages)
convertMessages(msgs) ==
    [i \in 1..Len(msgs) |-> RaycastMessage(authorOf(msgs[i]), contentTextOf(msgs[i].Content))]

\* Chat turns of a request: at most this many
MaxMessages == 3

\* Parts of an array content: at most this many
MaxParts == 3

Roles == {"user", "assistant", "system", "tool"}

TextPart(s) == JObj([type |-> JStr("text"), text |-> JStr(s)])
ImagePart == JObj([type |-> JStr("image_url"), image_url |-> JObj([url |-> JStr("u")])])

Parts ==
    {TextPart("a"), TextPart("b"), ImagePart,
     JObj([type |-> JStr("text"), text |-> JNum]),   \* text is not a string
     JObj([text |-> JStr("c")]),                     \* no type
     JStr("d")}                                      \* not an object

ArrayContents(max) == {JArr(a) : a \in UNION {[1..n -> Parts] : n \in 0..max}}

OtherContents == {JStr("hi"), JStr(""), JNull, JNum, JObj([text |-> JStr("e")])}

\* Turn lists for the order and the authors: any roles, a few contents
TurnLists(max) ==
    LET contents == {JStr("hi"), JStr("yo"), JNull, JArr(<<TextPart("a"), ImagePart, TextPart("b")>>)}
        turns == {OpenAIMessage(r, c) : r \in Roles, c \in contents}
    IN  UNION {[1..n -> turns] : n \in 0..max}

\* One-turn lists for the content: every content shape
ContentLists(max) ==
    {<<OpenAIMessage(r, c)>> : r \in {"user", "assistant"},
                               c \in ArrayContents(max) \cup OtherContents}

InitConvert ==
    /\ pc = "convert"
    /\ openaiMessages \in TurnLists(MaxMessages) \cup ContentLists(MaxParts)
    /\ raycastMessages = <<>>
    /\ request = NoRequest
    /\ sent = <<>>
    /\ models = NoModels
    /\ upstreamStatus = 0
    /\ parseFailures = 0
    /\ tasks = <<>>
    /\ body = <<>>
    /\ upstream = <<>>
    /\ buffer = <<>>
    /\ out = <<>>
    /\ nextUuid = 0
    /\ clientGone = FALSE
    /\ exit = "none"
    /\ response = NoResponse

ConvertMessages ==
    /\ pc = "convert"
    /\ pc' = "done"
    /\ raycastMessages' = convertMessages(openaiMessages)
    /\ UNCHANGED <<body, upstream, buffer, out, nextUuid, clientGone, exit, response,
                   openaiMessages, request, sent, models, upstreamStatus, parseFailures, tasks>>

NextConvert == ConvertMessages

SpecConvert == InitConvert /\ [][NextConvert]_vars

-----------------------------------------------------------------------------
(* handleChatCompletions *)

\* getProviderInfo(model, models): the provider and backend model of a model
\* name, the default model when the name is not in the catalog.
DefaultProvider == "dp"

getProviderInfo(model, list) ==
    IF \E i \in 1..Len(list) : list[i].Model = model
    THEN LET i == CHOOSE k \in 1..Len(list) :
                      list[k].Model = model /\ \A j \in 1..(k - 1) : list[j].Model # model
         IN  [provider |-> list[i].Provider, modelName |-> model]
    ELSE [provider |-> DefaultProvider, modelName |-> DefaultModel]

\* Mutant of systemPromptOf: the default is always used
systemPromptOf_AlwaysDefault(Extra) == "markdown"

\* Lines 280-286: the system prompt, "markdown" unless Extra holds a non-empty
\* string under "system"
systemPromptOf(Extra) ==
    LET value == StringMember(Extra, "system")
    IN  IF value.ok /\ value.s # "" THEN value.s ELSE "markdown"

\* Lines 259-262, in tenths
temperatureOf(Temperature) == IF Temperature = 0 THEN 5 ELSE Temperature

\* The request body of lines 289-325; max_tokens is 0 when the field is not
\* merged in.
RaycastChatRequest(r, list, threadId) ==
    LET model == IF r.Model = "" THEN DefaultModel ELSE r.Model
        info == getProviderInfo(model, list)
    IN  [additional_system_instructions |-> "", debug |-> FALSE, locale |-> "en-US",
         messages |-> convertMessages(r.Messages), model |-> info.modelName,
         provider |-> info.provider, source |-> "ai_chat",
         system_instruction |-> systemPromptOf(r.Extra),
         temperature |-> temperatureOf(r.Temperature), thread_id |-> threadId,
         tools |-> <<>>, max_tokens |-> IF r.MaxTokens > 0 THEN r.MaxTokens ELSE 0]

\* Lines 223-250: the request cannot be bound, or it has no message
BadRequest ==
    /\ pc = "bind"
    /\ LET r == ShouldBindJSON(request) IN r.err \/ Len(r.Messages) = 0
    /\ pc' = "returned"
    /\ response' = ErrorResponse(400, "invalid_request_error")
    /\ UNCHANGED <<body, upstream, buffer, out, nextUuid, clientGone, exit,
                   openaiMessages, raycastMessages, request, sent, models,
                   upstreamStatus, parseFailures, tasks>>

\* Lines 253-367: the backend request is built and handed to client.Do.
\* json.Marshal of these strings, numbers and slices and http.NewRequest with the
\* fixed URL do not fail, so the answers of lines 327-340 and 348-361 are
\* never produced.
SendRequest ==
    /\ pc = "bind"
    /\ LET r == ShouldBindJSON(request)
       IN  /\ ~r.err
           /\ Len(r.Messages) > 0
           /\ openaiMessages' = r.Messages
           /\ raycastMessages' = convertMessages(r.Messages)
           /\ sent' = Append(sent, RaycastChatRequest(r, models.list, nextUuid + 1))
    /\ nextUuid' = nextUuid + 1
    /\ pc' = "sent"
    /\ UNCHANGED <<body, upstream, buffer, out, clientGone, exit, response, request,
                   models, upstreamStatus, parseFailures, tasks>>

\* Lines 367-381: client.Do fails (no connection, timeout)
BackendUnreachable ==
    /\ pc = "sent"
    /\ pc' = "returned"
    /\ response' = ErrorResponse(500, "relay_error")
    /\ UNCHANGED <<body, upstream, buffer, out, nextUuid, clientGone, exit,
                   openaiMessages, raycastMessages, request, sent, models,
                   upstreamStatus, parseFailures, tasks>>

\* Status codes of a backend answer other than 200
UpstreamErrorStatuses == {400, 401, 404, 429, 500, 503}

\* Mutant of BackendRefuses: every refusal is answered with status 500
BackendRefuses_Status500 ==
    /\ pc = "sent"
    /\ \E status \in UpstreamErrorStatuses :
           /\ upstreamStatus' = status
           /\ response' = ErrorResponse(500, "relay_error")
    /\ pc' = "returned"
    /\ UNCHANGED <<body, upstream, buffer, out, nextUuid, clientGone, exit,
                   openaiMessages, raycastMessages, request, sent, models, parseFailures, tasks>>

\* Lines 386-408: the backend answers with another status than 200
BackendRefuses ==
    /\ pc = "sent"
    /\ \E status \in UpstreamErrorStatuses :
           /\ upstreamStatus' = status
           /\ response' = ErrorResponse(status, "relay_error")
    /\ pc' = "returned"
    /\ UNCHANGED <<body, upstream, buffer, out, nextUuid, clientGone, exit,
                   openaiMessages, raycastMessages, request, sent, models, parseFailures, tasks>>

\* Bodies of a backend answer with status 200, in the chat handler
ChatBodies ==
    {<<>>,
     DataLine(P_hello) \o <<LF, LF>> \o DataLine(P_there) \o <<LF, LF>>,
     DataLine(P_numtext) \o <<LF, LF>> \o DataLine(P_done) \o <<LF, LF>>,
     <<P_choices>>}

\* Lines 386, 411-415: the backend answers 200 and the body goes to one of
\* the two response handlers
BackendAnswers ==
    /\ pc = "sent"
    /\ \E b \in ChatBodies : body' = b /\ upstream' = b
    /\ upstreamStatus' = 200
    /\ pc' = IF ShouldBindJSON(request).Stream THEN "start" ELSE "nonstreaming"
    /\ UNCHANGED <<buffer, out, nextUuid, clientGone, exit, response,
                   openaiMessages, raycastMessages, request, sent, models, parseFailures, tasks>>

\* Request bodies
UserTurn == JObj([role |-> JStr("user"), content |-> JStr("q")])
AssistantTurn == JObj([role |-> JStr("assistant"), content |-> JStr("a")])
SystemTurn == JObj([role |-> JStr("system"), content |-> JStr("terse")])

\* Values of the "messages" member
MessagesValues ==
    {JNull, JStr("q"), JNumber(10), UserTurn,
     JArr(<<>>), JArr(<<JNumber(10)>>), JArr(<<JStr("q")>>),
     JArr(<<JObj([role |-> JNumber(10), content |-> JStr("q")])>>),
     JArr(<<UserTurn, JStr("q")>>),
     JArr(<<JNull>>), JArr(<<JObj([content |-> JStr("q")])>>),
     JArr(<<UserTurn>>), JArr(<<UserTurn, AssistantTurn>>),
     JArr(<<SystemTurn, UserTurn>>)}

\* The other members of a request
NoMembers == [k \in {} |-> JNull]

OtherMembers ==
    {NoMembers,
     "stream" :> JBool(TRUE),
     "stream" :> JBool(FALSE),
     "stream" :> JStr("true"),
     ("stream" :> JBool(TRUE)) @@ ("model" :> JStr("a")) @@ ("temperature" :> JNumber(7))
         @@ ("system" :> JStr("brief")) @@ ("max_tokens" :> JNumber(1000)),
     ("model" :> JStr("zz")) @@ ("user" :> JStr("u")),
     "temperature" :> JNumber(0),
     ("temperature" :> JNumber(20)) @@ ("top_p" :> JNumber(9)),
     "temperature" :> JStr("0.7"),
     "system" :> JStr(""),
     "system" :> JNumber(10),
     ("system" :> JStr("brief")) @@ ("user" :> JStr("u")) @@ ("seed" :> JNumber(10))
         @@ ("tools" :> JArr(<<>>))}

Requests ==
    {JInvalid, JNull, JArr(<<>>), JStr("q")}
    \cup {JObj(o) : o \in OtherMembers}
    \cup {JObj(("messages" :> m) @@ o) : m \in MessagesValues, o \in OtherMembers}

\* A model catalog entry
ModelInfo(model, provider) == [Model |-> model, Provider |-> provider]

\* What GetModels returns to the chat handler: a catalog, or nothing with an error
ChatCatalogs ==
    {NoModels, [err |-> TRUE, list |-> <<>>],
     [err |-> FALSE, list |-> <<ModelInfo("b", "p2"), ModelInfo("a", "p1")>>]}

InitChat ==
    /\ pc = "bind"
    /\ request \in Requests
    /\ models \in ChatCatalogs
    /\ body = <<>>
    /\ upstream = <<>>
    /\ buffer = <<>>
    /\ out = <<>>
    /\ nextUuid = 0
    /\ clientGone = FALSE
    /\ exit = "none"
    /\ response = NoResponse
    /\ openaiMessages = <<>>
    /\ raycastMessages = <<>>
    /\ sent = <<>>
    /\ upstreamStatus = 0
    /\ parseFailures = 0
    /\ tasks = <<>>

NextChat ==
    \/ BadRequest \/ SendRequest \/ BackendUnreachable \/ BackendRefuses \/ BackendAnswers
    \/ StreamBegin \/ ReadLine \/ ReadEOF \/ ReadError \/ ClientDisconnect
    \/ NonStreamingReadError \/ NonStreamingRespond

SpecChat == InitChat /\ [][NextChat]_vars

-----------------------------------------------------------------------------
(* handleModels *)

\* The bytes of the model names used here
NameBytes(name) ==
    CASE name = "a" -> <<97>>
      [] name = "ab" -> <<97, 98>>
      [] name = "b" -> <<98>>
      [] name = "B" -> <<66>>
      [] OTHER -> <<>>

\* a < b on Go strings: byte by byte, a proper prefix is smaller
RECURSIVE BytesLess(_, _)
BytesLess(a, b) ==
    CASE b = <<>> -> FALSE
      [] a = <<>> -> TRUE
      [] Head(a) # Head(b) -> Head(a) < Head(b)
      [] OTHER -> BytesLess(Tail(a), Tail(b))

\* The less function of lines 460-462
modelLess(x, y) == BytesLess(NameBytes(x.ID), NameBytes(y.ID))

\* The element appended for one catalog entry (lines 446-456)
ModelEntry(info) == [ID |-> info.Model, Object |-> "model", OwnedBy |-> info.Provider]

\* The slice built by the loop of lines 445-457
modelSliceOf(list) == [i \in 1..Len(list) |-> ModelEntry(list[i])]

\* Mutant of SortedArrangements: the slice is left as the loop built it
SortedArrangements_Unsorted(slice) == {slice}

\* What sort.Slice may leave in the slice (lines 460-462): the same elements, no
\* element before one that is less than it.  The sort is not stable, so elements
\* with equal IDs may end in any order.
SortedArrangements(slice) ==
    LET n == Len(slice)
        perms == {f \in [1..n -> 1..n] : \A i, j \in 1..n : i # j => f[i] # f[j]}
    IN  {[i \in 1..n |-> slice[f[i]]] : f \in
            {g \in perms : \A i, j \in 1..n : i < j => ~modelLess(slice[g[j]], slice[g[i]])}}

\* c.Writer.Write(jsonData) of an OpenAIModelResponse (lines 465-491)
OpenAIModelResponse(slice) ==
    [NoResponse EXCEPT !.status = 200, !.object = "list", !.data = slice]

\* Lines 421-435: GetModels fails
ModelsError ==
    /\ pc = "models"
    /\ models.err
    /\ pc' = "returned"
    /\ response' = ErrorResponse(500, "relay_error")
    /\ UNCHANGED <<body, upstream, buffer, out, nextUuid, clientGone, exit,
                   openaiMessages, raycastMessages, request, sent, models,
                   upstreamStatus, parseFailures, tasks>>

\* Lines 421, 437-491: the listing.  json.MarshalIndent of strings and integers
\* does not fail, so the answer of lines 471-484 is never produced.
ModelsList ==
    /\ pc = "models"
    /\ ~models.err
    /\ pc' = "returned"
    /\ \E sorted \in SortedArrangements(modelSliceOf(models.list)) :
           response' = OpenAIModelResponse(sorted)
    /\ UNCHANGED <<body, upstream, buffer, out, nextUuid, clientGone, exit,
                   openaiMessages, raycastMessages, request, sent, models,
                   upstreamStatus, parseFailures, tasks>>

\* Entries of a catalog: at most this many
MaxModels == 3

ModelNames == {"a", "ab", "b", "B"}
Providers == {"p1", "p2"}

\* The catalogs GetModels may return, their entries in any order
Catalogs(max) ==
    UNION {[1..n -> {ModelInfo(m, p) : m \in ModelNames, p \in Providers}] : n \in 0..max}

InitModels ==
    /\ pc = "models"
    /\ \E err \in BOOLEAN :
       \E list \in Catalogs(MaxModels) :
           /\ err => list = <<>>
           /\ models = [err |-> err, list |-> list]
    /\ request = NoRequest
    /\ body = <<>>
    /\ upstream = <<>>
    /\ buffer = <<>>
    /\ out = <<>>
    /\ nextUuid = 0
    /\ clientGone = FALSE
    /\ exit = "none"
    /\ response = NoResponse
    /\ openaiMessages = <<>>
    /\ raycastMessages = <<>>
    /\ sent = <<>>
    /\ upstreamStatus = 0
    /\ parseFailures = 0
    /\ tasks = <<>>

NextModels == ModelsError \/ ModelsList

SpecModels == InitModels /\ [][NextModels]_vars

-----------------------------------------------------------------------------
(* Two requests served at the same time *)

\* The handler calls in flight: gin runs each request's handler in its own
\* goroutine
Tasks == {1, 2}

\* Mutant of frameOf: buffer and fullText are variables of the package, shared
\* by every call
frameOf_Shared(i) == 1

\* The call whose locals `buffer` (utls.go 200) and `fullText` (utls.go 71) the
\* handler of request i reads and writes: they are declared inside the
\* functions, so each call has its own.
frameOf(i) == i

\* The lines parseSSEResponse will scan (lines 76-82)
linesToScan(responseText) ==
    IF TrimSpace(responseText) = <<>> THEN <<>> ELSE ScanLines(responseText)

\* A handler call about to read its backend body
NewTask(mode, b) ==
    [mode |-> mode, pc |-> IF mode = "stream" THEN "reading" ELSE "scanning",
     body |-> b, upstream |-> b, buffer |-> <<>>, fullText |-> "",
     lines |-> IF mode = "stream" THEN <<>> ELSE linesToScan(b),
     out |-> <<>>, response |-> NoResponse, exit |-> "none"]

\* handleStreamingResponse of request i: one iteration of the loop whose
\* ReadString returns a line (lines 203-280)
TaskReadLine(i) ==
    /\ tasks[i].mode = "stream"
    /\ tasks[i].pc = "reading"
    /\ HasLF(tasks[i].upstream)
    /\ LET line == FirstLine(tasks[i].upstream)
           buf == tasks[frameOf(i)].buffer \o line
           flush == HasSuffixLFLF(buf)
           writes == IF flush THEN dispatchLines(Split(buf), nextUuid, TRUE) ELSE <<>>
           read == [tasks EXCEPT
                       ![i].upstream = SubSeq(@, Len(line) + 1, Len(@)),
                       ![i].out = @ \o writes]
       IN  /\ tasks' = [read EXCEPT ![frameOf(i)].buffer = IF flush THEN <<>> ELSE buf]
           /\ nextUuid' = nextUuid + Len(writes)
    /\ UNCHANGED <<pc, body, upstream, buffer, out, clientGone, exit, response,
                   openaiMessages, raycastMessages, request, sent, models,
                   upstreamStatus, parseFailures>>

\* handleStreamingResponse of request i: the end of the body (lines 203-207,
\* 283-285)
TaskReadEOF(i) ==
    /\ tasks[i].mode = "stream"
    /\ tasks[i].pc = "reading"
    /\ ~HasLF(tasks[i].upstream)
    /\ tasks' = [tasks EXCEPT ![i].upstream = <<>>,
                              ![i].out = Append(@, DoneWrite(TRUE)),
                              ![i].exit = "eof",
                              ![i].pc = "closed"]
    /\ UNCHANGED <<pc, body, upstream, buffer, out, nextUuid, clientGone, exit, response,
                   openaiMessages, raycastMessages, request, sent, models,
                   upstreamStatus, parseFailures>>

\* handleStreamingResponse of request i: a read error (lines 203-210, 283-285)
TaskReadError(i) ==
    /\ tasks[i].mode = "stream"
    /\ tasks[i].pc = "reading"
    /\ tasks' = [tasks EXCEPT ![i].out = Append(@, DoneWrite(TRUE)),
                              ![i].exit = "error",
                              ![i].pc = "closed"]
    /\ UNCHANGED <<pc, body, upstream, buffer, out, nextUuid, clientGone, exit, response,
                   openaiMessages, raycastMessages, request, sent, models,
                   upstreamStatus, parseFailures>>

\* parseSSEResponse of request i: one iteration of the scan loop (lines 82-150)
TaskScanLine(i) ==
    /\ tasks[i].mode = "aggregate"
    /\ tasks[i].pc = "scanning"
    /\ tasks[i].lines # <<>>
    /\ LET scanned == [tasks EXCEPT ![i].lines = Tail(@)]
       IN  tasks' = [scanned EXCEPT
                        ![frameOf(i)].fullText = @ \o sseLineText(Head(tasks[i].lines))]
    /\ UNCHANGED <<pc, body, upstream, buffer, out, nextUuid, clientGone, exit, response,
                   openaiMessages, raycastMessages, request, sent, models,
                   upstreamStatus, parseFailures>>

\* handleNonStreamingResponse of request i after the scan (lines 181, 313-432)
TaskRespond(i) ==
    /\ tasks[i].mode = "aggregate"
    /\ tasks[i].pc = "scanning"
    /\ tasks[i].lines = <<>>
    /\ LET fullText == tasks[frameOf(i)].fullText
           resolved == IF fullText = ""
                       THEN orPlaceholder(directJSONText(tasks[i].body, fullText))
                       ELSE fullText
       IN  tasks' = [tasks EXCEPT
                        ![i].response = OpenAIChatResponse(nextUuid + 1, resolved),
                        ![i].upstream = <<>>,
                        ![i].exit = "eof",
                        ![i].pc = "done"]
    /\ nextUuid' = nextUuid + 1
    /\ UNCHANGED <<pc, body, upstream, buffer, out, clientGone, exit, response,
                   openaiMessages, raycastMessages, request, sent, models,
                   upstreamStatus, parseFailures>>

\* Backend bodies of the two requests
TaskBodies ==
    {TwoEventBody(P_hello, P_there),
     TwoEventBody(P_numtext, P_foo),
     DataLine(P_histop) \o <<LF>> \o DataLine(P_hello) \o <<LF, LF>>,
     DataLine(P_hello) \o <<LF, LF>> \o DataLine(P_there) \o <<LF>>,
     <<P_message_delta>>}

InitTasks ==
    /\ tasks \in [Tasks -> {NewTask(mode, b) : mode \in {"stream", "aggregate"},
                                              b \in TaskBodies}]
    /\ pc = "tasks"
    /\ body = <<>>
    /\ upstream = <<>>
    /\ buffer = <<>>
    /\ out = <<>>
    /\ nextUuid = 0
    /\ clientGone = FALSE
    /\ exit = "none"
    /\ response = NoResponse
    /\ openaiMessages = <<>>
    /\ raycastMessages = <<>>
    /\ request = NoRequest
    /\ sent = <<>>
    /\ models = NoModels
    /\ upstreamStatus = 200
    /\ parseFailures = 0

NextTasks ==
    \E i \in Tasks :
        \/ TaskReadLine(i) \/ TaskReadEOF(i) \/ TaskReadError(i)
        \/ TaskScanLine(i) \/ TaskRespond(i)

SpecTasks == InitTasks /\ [][NextTasks]_vars

-----------------------------------------------------------------------------
(* Properties of handleStreamingResponse, under Spec *)

\* The data chunks among the writes, in order
Chunks == SelectSeq(out, LAMBDA w : w.kind = "chunk")

\* What the reader has consumed of the body
Consumed == SubSeq(body, 1, Len(body) - Len(upstream))

\* The body of two well-formed events, each ended by a blank line
TwoEvents == DataLine(P_hello) \o <<LF, LF>> \o DataLine(P_there) \o <<LF, LF>>

\* C1: the "data: [DONE]" marker is written exactly once per streaming request,
\* after every data chunk, and nothing is written after it: in every state a
\* marker among the writes is the last write, and the handler has returned
\* exactly when the last write is the marker.
C1_SentinelOnceAndLast ==
    /\ \A i \in 1..Len(out) : out[i].kind = "done" => i = Len(out)
    /\ (pc = "closed") <=> (out # <<>> /\ out[Len(out)].kind = "done")

\* C1 witness: a finished request that wrote two chunks and then the marker
C1_Witness ==
    /\ pc = "closed"
    /\ Len(out) = 3
    /\ out[1].kind = "chunk" /\ out[2].kind = "chunk" /\ out[3].kind = "done"

\* The longest prefix of s that ends with "\n\n"
DispatchedPrefix(s) ==
    LET ends == {k \in 2..Len(s) : s[k - 1] = LF /\ s[k] = LF}
    IN  IF ends = {} THEN <<>>
        ELSE SubSeq(s, 1, CHOOSE k \in ends : \A j \in ends : j <= k)

\* A data line whose payload has the shape {text, finish_reason}
IsStrictEvent(l) == HasDataPrefix(l) /\ ~RaycastSSEData(TrimSpace(Tail(l))).err

C3_ReadErrorStillTerminated ==
    /\ [](exit = "error" =>
            /\ pc = "closed"
            /\ out # <<>>
            /\ out[Len(out)].kind = "done"
            /\ \A i \in 1..(Len(out) - 1) : out[i].kind = "chunk")
    /\ [][(exit # "error" /\ exit' = "error") =>
            /\ upstream' = upstream
            /\ Len(out') = Len(out) + 1
            /\ SubSeq(out', 1, Len(out)) = out]_vars
    /\ [][exit = "error" => (out' = out /\ upstream' = upstream)]_vars

\* C3 witness: the read failed after a chunk was sent and with input left
C3_Witness ==
    /\ exit = "error"
    /\ HasLF(upstream)
    /\ Len(out) >= 2
    /\ out[1].kind = "chunk"

\* C9 as claimed: all data chunks of one request carry the same identifier.
C9_SameIdInEveryChunk ==
    \A i, j \in 1..Len(Chunks) : Chunks[i].id = Chunks[j].id

\* C10 as claimed: after the first failed write the handler reads no more of
\* the backend body and attempts no further data chunk.
C10_StopsAfterFailedWrite ==
    [][(\E i \in 1..Len(out) : ~out[i].ok) =>
          /\ upstream' = upstream
          /\ Len(SelectSeq(out', LAMBDA w : w.kind = "chunk")) = Len(Chunks)]_vars

-----------------------------------------------------------------------------
(* Properties of handleNonStreamingResponse, under SpecAggregate *)

\* The body of the end-to-end scenario
HelloThere == TwoEvents

\* Every line of a body, whatever its length: the pieces between the "\n", a
\* trailing "\r" dropped
AllLines(text) == LET pieces == Split(text) IN [i \in 1..Len(pieces) |-> DropCR(pieces[i])]

\* C4 as claimed: the answer text is the concatenation, in line order, of the
\* fragments of every non-blank data-prefixed line of the body; the body of the
\* end-to-end scenario gives exactly "Hello there".
C4_ConcatenationOfEveryLine ==
    (pc = "done" /\ exit = "eof") =>
        LET expected == ConcatLineTexts(AllLines(body))
        IN  /\ expected # "" => response.content = expected
            /\ body = HelloThere => response.content = "Hello there"

\* C5: a body that was read never gives an empty message content nor an error
\* answer: the answer is a chat.completion document with status 200, its content
\* is not "", and it is the fixed notice when neither the line pass nor the
\* whole-body JSON fallback yields text, an empty body included.
C5_NeverEmptyContent ==
    (pc = "done" /\ exit = "eof") =>
        /\ response.status = 200
        /\ response.object = "chat.completion"
        /\ response.content # ""
        /\ (parseSSEResponse(body) = "" /\ directJSONText(body, "") = "")
               => response.content = Placeholder
        /\ TrimSpace(body) = <<>> => response.content = Placeholder

\* C5 witness: an entirely empty body was answered with the notice
C5_Witness ==
    /\ pc = "done" /\ exit = "eof"
    /\ body = <<>>
    /\ response.content = Placeholder

\* C6 as claimed: the single payload {"content":"hi"} yields the fragment "hi",
\* {"text":"hi","finish_reason":"stop"} yields "hi", and {"foo":"bar"} yields no
\* fragment and no error (the notice, with status 200).  The finish_reason is
\* not kept by parseSSEResponse and does not show in the answer.
C6_SinglePayloadFragments ==
    (pc = "done" /\ exit = "eof") =>
        /\ body = DataLine(P_content) \o <<LF, LF>> => response.content = "hi"
        /\ body = DataLine(P_histop) \o <<LF, LF>> => response.content = "hi"
        /\ body = DataLine(P_foo) \o <<LF, LF>> =>
               (response.status = 200 /\ response.content = Placeholder)

\* C15: every document the non-streaming handler writes has finish_reason
\* "length" and the fixed usage block (10, 10, 20, every detail 0), whatever the
\* body is and whatever finish_reason its events carry.
C15_FixedFinishReasonAndUsage ==
    (pc = "done" /\ exit = "eof") =>
        /\ response.object = "chat.completion"
        /\ response.finish_reason = "length"
        /\ response.usage.prompt_tokens = 10
        /\ response.usage.completion_tokens = 10
        /\ response.usage.total_tokens = 20
        /\ response.usage.prompt_tokens_details = [cached_tokens |-> 0, audio_tokens |-> 0]
        /\ response.usage.completion_tokens_details =
               [reasoning_tokens |-> 0, audio_tokens |-> 0,
                accepted_prediction_tokens |-> 0, rejected_prediction_tokens |-> 0]

\* C15 witness: a body whose last event carries finish_reason "stop" was answered
C15_Witness ==
    /\ pc = "done" /\ exit = "eof"
    /\ body = DataLine(P_histop) \o <<LF, LF>>
    /\ response.content = "hi"
    /\ response.finish_reason = "length"

\* Reading a decoded JSON value: a member of an object, an element of an array,
\* the string a value holds; JNull and "" when there is none
Member(v, key) == IF v.t = "object" /\ key \in DOMAIN v.f THEN v.f[key] ELSE JNull
Element(v, i) == IF v.t = "array" /\ i <= Len(v.a) THEN v.a[i] ELSE JNull
StringOf(v) == IF v.t = "string" THEN v.s ELSE ""

RECURSIVE FirstNonEmpty(_)
FirstNonEmpty(candidates) ==
    CASE candidates = <<>> -> ""
      [] Head(candidates) # "" -> Head(candidates)
      [] OTHER -> FirstNonEmpty(Tail(candidates))

\* The fields of a whole-body JSON document, in the order of the contract
WholeBodyCandidates(v) ==
    <<StringOf(Member(v, "content")),
      StringOf(Member(Member(Element(Member(v, "choices"), 1), "message"), "content")),
      StringOf(Member(Member(Element(Member(v, "choices"), 1), "delta"), "content")),
      StringOf(Member(v, "text")),
      StringOf(Member(v, "completion"))>>

\* C16: the whole-body JSON fallback is used only when the line pass extracted no
\* text; it then yields the first non-empty string among content,
\* choices[0].message.content, choices[0].delta.content, text, completion (the
\* notice when there is none); when the line pass extracted text, that text is
\* the answer.
C16_WholeBodyFallbackOrder ==
    (pc = "done" /\ exit = "eof") =>
        LET lineText == parseSSEResponse(body)
            whole == FirstNonEmpty(WholeBodyCandidates(JSONValue(body)))
        IN  /\ lineText # "" => response.content = lineText
            /\ (lineText = "" /\ whole # "") => response.content = whole
            /\ (lineText = "" /\ whole = "") => response.content = Placeholder

\* C16 witness: a document with message, delta and text was answered with the
\* message content
C16_Witness ==
    /\ pc = "done" /\ exit = "eof"
    /\ body = <<P_message_delta>>
    /\ response.content = "m"

\* The fragment of one payload by the chain of the contract: nothing for the end
\* marker; the text of a payload of the {text, finish_reason} shape; otherwise,
\* for a JSON object, the first non-empty string among text, content and
\* message.content; nothing for a payload that is not JSON.
IsStrictShape(v) ==
    \/ v.t = "null"
    \/ /\ v.t = "object"
       /\ Member(v, "text").t \in {"string", "null"}
       /\ Member(v, "finish_reason").t \in {"string", "null"}

ChainFragment(data) ==
    LET v == JSONValue(data)
    IN  CASE data = <<P_done>> -> ""
          [] IsStrictShape(v) -> StringOf(Member(v, "text"))
          [] v.t = "object" ->
               FirstNonEmpty(<<StringOf(Member(v, "text")), StringOf(Member(v, "content")),
                               StringOf(Member(Member(v, "message"), "content"))>>)
          [] OTHER -> ""

RECURSIVE ChainFragments(_)
ChainFragments(lines) ==
    IF lines = <<>> THEN ""
    ELSE (IF HasDataPrefix(Head(lines)) THEN ChainFragment(TrimSpace(Tail(Head(lines))))
          ELSE "")
         \o ChainFragments(Tail(lines))

\* C17: in parseSSEResponse each payload the scanner delivers goes through the
\* chain: when the strict parse fails and the payload is a JSON object, its
\* fragment is the first non-empty string among text, content and
\* message.content; a payload that is not JSON, or yields nothing, adds nothing
\* and the next event is still processed.  The answer is the concatenation of
\* these fragments.
C17_PerEventChain ==
    (pc = "done" /\ exit = "eof") =>
        LET expected == IF TrimSpace(body) = <<>> THEN ""
                        ELSE ChainFragments(ScanLines(body))
        IN  /\ expected # "" => response.content = expected
            /\ body = DataLine(P_garbage) \o <<LF, LF>> \o DataLine(P_hello) \o <<LF, LF>>
                   => response.content = "Hello"
            /\ body = DataLine(P_numtext_only) \o <<LF, LF>> \o DataLine(P_numtext_message)
                          \o <<LF, LF>>
                   => response.content = "m"

\* C17 witness: two payloads the strict parse rejects, the first with text and
\* content, the second with an empty content and a nested message
C17_Witness ==
    /\ pc = "done" /\ exit = "eof"
    /\ body = DataLine(P_numfinish_text_content) \o <<LF, LF>>
              \o DataLine(P_numtext_emptycontent_message) \o <<LF, LF>>
    /\ response.content = "tm"

-----------------------------------------------------------------------------
(* Properties of convertMessages, under SpecConvert *)

\* The text of a chat turn as the contract gives it
IsTextPart(part) ==
    part.t = "object" /\ "type" \in DOMAIN part.f /\ part.f["type"] = JStr("text")

TextOfPart(part) ==
    IF "text" \in DOMAIN part.f /\ part.f["text"].t = "string" THEN part.f["text"].s ELSE ""

RECURSIVE Concat(_)
Concat(strs) == IF strs = <<>> THEN "" ELSE Head(strs) \o Concat(Tail(strs))

ResolvedText(content) ==
    CASE content.t = "string" -> content.s
      [] content.t = "array" ->
           LET textParts == SelectSeq(content.a, IsTextPart)
           IN  Concat([i \in 1..Len(textParts) |-> TextOfPart(textParts[i])])
      [] OTHER -> ""

\* C7: the result has the length of the input and its i-th turn comes from the
\* i-th chat turn: author "assistant" exactly when the role is "assistant", author
\* "user" for every other role, and the text of that turn.
C7_SameLengthOrderAndAuthor ==
    pc = "done" =>
        /\ Len(raycastMessages) = Len(openaiMessages)
        /\ \A i \in 1..Len(openaiMessages) :
             /\ i \in DOMAIN raycastMessages
             /\ raycastMessages[i].Author \in {"assistant", "user"}
             /\ (raycastMessages[i].Author = "assistant")
                    <=> (openaiMessages[i].Role = "assistant")
             /\ raycastMessages[i].Content.Text = ResolvedText(openaiMessages[i].Content)

\* C7 witness: three turns with roles system, assistant, tool were converted
C7_Witness ==
    /\ pc = "done"
    /\ Len(openaiMessages) = 3
    /\ openaiMessages[1].Role = "system" /\ openaiMessages[2].Role = "assistant"
    /\ openaiMessages[3].Role = "tool"
    /\ openaiMessages[1].Content # openaiMessages[2].Content
    /\ raycastMessages[2].Author = "assistant"

\* C8: the text of a turn is the string itself for a string content, the
\* in-order concatenation of the text of exactly the parts of type "text" for a
\* sequence of parts, and "" for any other content; every input is converted.
C8_ContentResolution ==
    pc = "done" =>
        \A i \in 1..Len(openaiMessages) :
            LET content == openaiMessages[i].Content
                text == raycastMessages[i].Content.Text
            IN  /\ content.t = "string" => text = content.s
                /\ content.t = "array" => text = ResolvedText(content)
                /\ content.t \notin {"string", "array"} => text = ""

\* C8 witness: a content of a text part, an image part and a text part gave "ab"
C8_Witness ==
    /\ pc = "done"
    /\ Len(openaiMessages) = 1
    /\ openaiMessages[1].Content = JArr(<<TextPart("a"), ImagePart, TextPart("b")>>)
    /\ raycastMessages[1].Content.Text = "ab"

-----------------------------------------------------------------------------
(* Further properties of handleStreamingResponse, under Spec *)

\* A data line whose payload yields a text fragment or a terminal signal
YieldsSomething(l) ==
    /\ IsStrictEvent(l)
    /\ \/ RaycastSSEData(TrimSpace(Tail(l))).Text # ""
       \/ RaycastSSEData(TrimSpace(Tail(l))).FinishReason # ""

\* C11 as claimed: a chunk is written only for an event that yields a text
\* fragment or a terminal signal: no chunk has both an empty content and an
\* empty finish_reason, and the number of chunks is the number of dispatched
\* events with a non-empty fragment or finish reason.
C11_ChunkOnlyForFragmentOrSignal ==
    /\ \A k \in 1..Len(Chunks) : Chunks[k].content # "" \/ Chunks[k].finish_reason # ""
    /\ Len(Chunks) = Len(SelectSeq(Split(DispatchedPrefix(Consumed)), YieldsSomething))

-----------------------------------------------------------------------------
(* Properties of handleChatCompletions, under SpecChat *)

\* A JSON value that is one well-formed message: an object whose role, if
\* present, is a string, or null
IsMessageValue(v) ==
    \/ v.t = "null"
    \/ v.t = "object" /\ ("role" \in DOMAIN v.f => v.f["role"].t \in {"string", "null"})

\* The request has no usable messages: it is not a JSON object, or its messages
\* member is missing, is not an array, is an empty array or has an element that
\* is not a message.
MessagesUnusable(req) ==
    \/ req.t # "object"
    \/ "messages" \notin DOMAIN req.f
    \/ req.f["messages"].t # "array"
    \/ req.f["messages"].a = <<>>
    \/ \E i \in 1..Len(req.f["messages"].a) : ~IsMessageValue(req.f["messages"].a[i])

\* C12: a request whose messages are missing, empty or unparseable is answered
\* 400 invalid_request_error; no request is sent to the backend and neither
\* response handler runs (nothing is written as a stream, no body is read, no
\* id is drawn).
C12_BadMessagesRejected ==
    MessagesUnusable(request) =>
        /\ pc \in {"bind", "returned"}
        /\ pc = "returned" => response = ErrorResponse(400, "invalid_request_error")
        /\ sent = <<>>
        /\ out = <<>>
        /\ nextUuid = 0
        /\ upstreamStatus = 0
        /\ parseFailures = 0

C12_Witness ==
    /\ pc = "returned"
    /\ request.t = "object"
    /\ "messages" \in DOMAIN request.f
    /\ request.f["messages"] = JArr(<<UserTurn, JStr("q")>>)
    /\ response.status = 400

-----------------------------------------------------------------------------
(* Properties of handleModels, under SpecModels *)

\* How many times x occurs in the sequence s
Occurrences(x, s) == Cardinality({i \in 1..Len(s) : s[i] = x})

\* C14: the listing is sorted ascending by id whatever the order of the catalog,
\* and holds exactly one entry (id = model, owned_by = provider) per catalog
\* entry.
C14_ListingSortedOnePerEntry ==
    (pc = "returned" /\ ~models.err) =>
        /\ response.status = 200
        /\ response.object = "list"
        /\ Len(response.data) = Len(models.list)
        /\ \A i, j \in 1..Len(response.data) :
               i < j => ~BytesLess(NameBytes(response.data[j].ID),
                                   NameBytes(response.data[i].ID))
        /\ \A i \in 1..Len(models.list) :
               LET e == [ID |-> models.list[i].Model, Object |-> "model",
                         OwnedBy |-> models.list[i].Provider]
               IN  Occurrences(e, response.data) = Occurrences(models.list[i], models.list)

C14_Witness ==
    /\ pc = "returned"
    /\ models.list = <<ModelInfo("b", "p1"), ModelInfo("ab", "p2"), ModelInfo("B", "p1")>>
    /\ response.data = <<[ID |-> "B", Object |-> "model", OwnedBy |-> "p1"],
                         [ID |-> "ab", Object |-> "model", OwnedBy |-> "p2"],
                         [ID |-> "b", Object |-> "model", OwnedBy |-> "p1"]>>

-----------------------------------------------------------------------------
(* The end marker, the two paths compared, and the end of the stream, under Spec *)

\* A data line whose payload is the end marker
IsDoneLine(l) == HasDataPrefix(l) /\ TrimSpace(Tail(l)) = <<P_done>>

\* A data line that is a parse failure: not the end marker, and rejected by the
\* strict parse
IsParseFailure(l) == HasDataPrefix(l) /\ ~IsDoneLine(l) /\ ~IsStrictEvent(l)

\* C18 as claimed, for the streaming path: the payload [DONE] is recognised
\* before any parse attempt, so it gives no chunk and is not logged as a parse
\* failure: the chunks are those of the other payloads, and the parse failures
\* logged are those of the payloads other than [DONE].
C18_DoneMarkerNotAParseFailure ==
    LET lines == Split(DispatchedPrefix(Consumed))
    IN  /\ Len(Chunks) = Len(SelectSeq(lines, LAMBDA l : IsStrictEvent(l) /\ ~IsDoneLine(l)))
        /\ parseFailures = Len(SelectSeq(lines, IsParseFailure))

\* A body made of data events, each closed by a blank line, with "\n" line ends
\* and no line longer than the aggregator's scanner accepts
IsEventBody(b) ==
    /\ HasSuffixLFLF(b)
    /\ \A i \in 1..Len(Split(b)) :
           LET l == Split(b)[i]
           IN  /\ l = <<>> \/ HasDataPrefix(l)
               /\ \A k \in 1..Len(l) : l[k] # CR
               /\ ByteLen(l) < MaxScanTokenSize

RECURSIVE ConcatContents(_)
ConcatContents(chunks) ==
    IF chunks = <<>> THEN "" ELSE Head(chunks).content \o ConcatContents(Tail(chunks))

\* C19 as claimed: for a body of blank-line-terminated data events, the delta
\* texts of the chunks the streaming handler writes, concatenated, are the text
\* parseSSEResponse extracts from the same body.
C19_StreamingTextEqualsAggregatedText ==
    (pc = "closed" /\ exit = "eof" /\ IsEventBody(body)) =>
        ConcatContents(Chunks) = parseSSEResponse(body)

\* C20 as claimed: when the stream has ended, every data line the backend
\* delivered has been extracted and written before the marker, a last event not
\* followed by a blank line included: there is one chunk per data line of the
\* whole body that parses.
C20_NoEventLostAtEndOfStream ==
    (pc = "closed" /\ exit = "eof" /\ \A k \in 1..Len(body) : body[k] # CR) =>
        /\ Len(Chunks) = Len(SelectSeq(Split(body), IsStrictEvent))
        /\ out[Len(out)].kind = "done"

-----------------------------------------------------------------------------
(* The backend request, under SpecChat *)

\* C21 as claimed: the temperature sent to the backend is the temperature of the
\* request whenever the request supplies one (a number), and the default 0.5
\* (5 tenths) when the request has no temperature member.
C21_TemperatureForwarded ==
    sent # <<>> =>
        LET supplied == Member(request, "temperature")
        IN  /\ supplied.t = "number" => sent[1].temperature = supplied.n
            /\ "temperature" \notin DOMAIN request.f => sent[1].temperature = 5

\* The members of a request the contract names
KnownMembers ==
    {"messages", "model", "temperature", "stream", "system", "max_tokens", "top_p",
     "frequency_penalty", "presence_penalty"}

\* The request without its unknown members
WithoutUnknownMembers(req) ==
    JObj([k \in DOMAIN req.f \cap KnownMembers |-> req.f[k]])

\* C22 as claimed: system_instruction is the system member of the request
\* whenever that member is a string, and "markdown" otherwise.
C22_SystemStringForwarded ==
    sent # <<>> =>
        LET system == Member(request, "system")
        IN  sent[1].system_instruction = IF system.t = "string" THEN system.s ELSE "markdown"

\* C22 as amended: system_instruction is the system member of the request when
\* that member is a non-empty string, and "markdown" otherwise (no member, a
\* member of another type, the empty string); chat turns with role "system" do
\* not set it.  Every unknown member of the request is kept in Extra, and the
\* backend request is the one the request without its unknown members gives.
C22_SystemInstructionAndExtra ==
    sent # <<>> =>
        LET system == Member(request, "system")
            bound == ShouldBindJSON(request)
        IN  /\ sent[1].system_instruction =
                   IF system.t = "string" /\ system.s # "" THEN system.s ELSE "markdown"
            /\ (Member(request, "messages") = JArr(<<SystemTurn, UserTurn>>)
                /\ "system" \notin DOMAIN request.f)
                   => (sent[1].system_instruction = "markdown"
                       /\ sent[1].messages[1] = RaycastMessage("user", "terse"))
            /\ \A k \in DOMAIN request.f \ KnownMembers :
                   k \in DOMAIN bound.Extra /\ bound.Extra[k] = request.f[k]
            /\ sent[1] = RaycastChatRequest(ShouldBindJSON(WithoutUnknownMembers(request)),
                                            models.list, sent[1].thread_id)

\* C22 witness: a request with a system string and three unknown members was
\* sent on with that string
C22_Witness ==
    /\ sent # <<>>
    /\ Member(request, "system") = JStr("brief")
    /\ {"user", "seed", "tools"} \subseteq DOMAIN request.f
    /\ sent[1].system_instruction = "brief"

-----------------------------------------------------------------------------
(* Two requests served at the same time, under SpecTasks *)

\* A sequence of writes without the ids, which are drawn afresh for every chunk
WithoutIds(writes) == [k \in 1..Len(writes) |-> [writes[k] EXCEPT !.id = 0]]

\* What handleStreamingResponse writes for a body when it runs alone and reads
\* the body to its end
RECURSIVE StreamedAlone(_, _)
StreamedAlone(unread, buf) ==
    IF ~HasLF(unread) THEN <<DoneWrite(TRUE)>>
    ELSE LET line == FirstLine(unread)
             rest == SubSeq(unread, Len(line) + 1, Len(unread))
         IN  IF HasSuffixLFLF(buf \o line)
             THEN WithoutIds(dispatchLines(Split(buf \o line), 0, TRUE))
                  \o StreamedAlone(rest, <<>>)
             ELSE StreamedAlone(rest, buf \o line)

IsPrefix(a, b) == Len(a) <= Len(b) /\ a = SubSeq(b, 1, Len(a))

\* C23: whatever the interleaving of the two requests, each request's output is
\* the one it has when handled alone: the writes of a streaming request are at
\* every moment a prefix of, and at the end of its body equal to, the chunks and
\* marker of its own body; the document of a non-streaming request carries the
\* text of its own body.
C23_OutputAsWhenHandledAlone ==
    \A i \in DOMAIN tasks :
        LET t == tasks[i]
        IN  /\ (t.mode = "stream" /\ t.exit # "error") =>
                   IsPrefix(WithoutIds(t.out), StreamedAlone(t.body, <<>>))
            /\ (t.mode = "stream" /\ t.exit = "eof") =>
                   WithoutIds(t.out) = StreamedAlone(t.body, <<>>)
            /\ (t.mode = "aggregate" /\ t.pc = "done") =>
                   /\ t.response.content = resolveFullText(t.body)
                   /\ t.response.object = "chat.completion"
            /\ t.mode = "aggregate" => t.out = <<>>

\* C23 witness: two streaming requests, the second one's first line read while
\* the first had an unfinished event in its buffer, both finished
C23_Witness ==
    /\ DOMAIN tasks = Tasks
    /\ tasks[1].mode = "stream" /\ tasks[2].mode = "stream"
    /\ tasks[1].exit = "eof" /\ tasks[2].exit = "eof"
    /\ tasks[1].body = TwoEventBody(P_hello, P_there)
    /\ tasks[2].body = TwoEventBody(P_numtext, P_foo)
    /\ Len(tasks[1].out) = 3 /\ Len(tasks[2].out) = 2
    /\ tasks[1].out[1].id > tasks[2].out[1].id

====
